---------------------------- MODULE Spec2Model ----------------------------
(***************************************************************************)
(* Model of the Kibana Prometheus exporter's collector                      *)
(* (internal/collector): the typed status document and its JSON decoding,   *)
(* the translation of a status document into metric samples, the            *)
(* descriptors and Describe, the concurrent Collect / CheckHealth           *)
(* operations around one mutex, and the /health and /ready handlers.        *)
(***************************************************************************)
EXTENDS Integers, Sequences, FiniteSets, TLC

(***************************************************************************)
(* Bounds of the model.                                                     *)
(***************************************************************************)
\* number of concurrent scrape callers of Collect
NumCollectors == 2
\* largest measured scrape duration, in whole seconds
MaxElapsed == 1

\* the default of the -timeout flag, in seconds
DefaultTimeout == 10

(***************************************************************************)
(* float64 values, kept as reduced fractions num/den (den > 0).             *)
(***************************************************************************)
Abs(n) == IF n < 0 THEN -n ELSE n

RECURSIVE GCD(_, _)
GCD(a, b) == IF b = 0 THEN a ELSE GCD(b, a % b)

Rat(n, d) ==
    LET g == GCD(Abs(n), d)
    IN  IF n = 0 THEN [num |-> 0, den |-> 1] ELSE [num |-> n \div g, den |-> d \div g]

\* float64(x) of an integer
Float64(n) == Rat(n, 1)

\* a faulty conversion that divides by 100
DivBy100(r) == Rat(r.num, r.den * 100)

\* x / 1000.0
DivBy1000(r) == Rat(r.num, r.den * 1000)

(***************************************************************************)
(* JSON values of a response body.  An object is a function from the keys   *)
(* it holds to JSON values; a key it does not hold is absent.               *)
(***************************************************************************)
JAbsent == [k |-> "absent"]
JNull == [k |-> "null"]
JNum(n) == [k |-> "num", n |-> n]
JStr(s) == [k |-> "str", s |-> s]
JBool(b) == [k |-> "bool", b |-> b]
JObj(o) == [k |-> "obj", o |-> o]
JEmpty == JObj([key \in {} |-> JNull])

Has(j, key) == j.k = "obj" /\ key \in DOMAIN j.o
Get(j, key) == IF Has(j, key) THEN j.o[key] ELSE JAbsent

RECURSIVE At(_, _)
At(j, path) == IF path = <<>> THEN j ELSE At(Get(j, Head(path)), Tail(path))

\* the value at the path is there and is not null
Present(j, path) == At(j, path).k \notin {"absent", "null"}

RECURSIVE Paths(_)
Paths(j) ==
    IF j.k # "obj" THEN {}
    ELSE UNION {{<<key>>} \cup {<<key>> \o p : p \in Paths(j.o[key])} : key \in DOMAIN j.o}

RECURSIVE Remove(_, _)
Remove(j, path) ==
    IF Len(path) = 1
    THEN JObj([key \in DOMAIN j.o \ {path[1]} |-> j.o[key]])
    ELSE JObj([key \in DOMAIN j.o |->
                 IF key = path[1] THEN Remove(j.o[key], Tail(path)) ELSE j.o[key]])

RECURSIVE Put(_, _, _)
Put(j, path, v) ==
    IF path = <<>> THEN v
    ELSE JObj([key \in DOMAIN j.o |->
                 IF key = path[1] THEN Put(j.o[key], Tail(path), v) ELSE j.o[key]])

\* the document cut down to one path: its ancestors and its subtree
RECURSIVE Only(_, _)
Only(j, path) ==
    IF path = <<>> THEN j
    ELSE JObj([key \in {path[1]} |-> Only(j.o[key], Tail(path))])


(***************************************************************************)
(* Go types of the status document (types.go) and Go values.                *)
(* A pointer is Nil or Ptr(v); a map is the nil map or a function.          *)
(***************************************************************************)
Nil == <<>>
Ptr(v) == <<v>>
Deref(p) == p[1]

NilMap == [isNil |-> TRUE, kv |-> [key \in {} |-> Nil]]
MapKeys(m) == DOMAIN m.kv
\* m[key] of a Go map with pointer values: nil for a missing key
MapGet(m, key) == IF key \in DOMAIN m.kv THEN m.kv[key] ELSE Nil

TString == [t |-> "string"]
TInt == [t |-> "int"]
TInt64 == [t |-> "int64"]
TFloat64 == [t |-> "float64"]
TBool == [t |-> "bool"]
TPtr(e) == [t |-> "ptr", e |-> e]
TMap(e) == [t |-> "map", e |-> e]
TStruct(f) == [t |-> "struct", f |-> f]
Field(json, ty) == [json |-> json, ty |-> ty]

VersionInfo ==
    TStruct([Number |-> Field("number", TString),
             BuildHash |-> Field("build_hash", TString),
             BuildNumber |-> Field("build_number", TInt),
             BuildSnapshot |-> Field("build_snapshot", TBool)])

OverallStatus ==
    TStruct([Level |-> Field("level", TString), Summary |-> Field("summary", TString)])

ServiceStatus ==
    TStruct([Level |-> Field("level", TString), Summary |-> Field("summary", TString)])

StatusInfo ==
    TStruct([Overall |-> Field("overall", OverallStatus),
             Core |-> Field("core", TMap(TPtr(ServiceStatus))),
             Plugins |-> Field("plugins", TMap(TPtr(ServiceStatus)))])

HeapMetrics ==
    TStruct([TotalBytes |-> Field("total_in_bytes", TInt64),
             UsedBytes |-> Field("used_in_bytes", TInt64),
             SizeLimit |-> Field("size_limit", TInt64)])

MemoryMetrics ==
    TStruct([Heap |-> Field("heap", TPtr(HeapMetrics)),
             Resident |-> Field("resident_set_size_in_bytes", TPtr(TInt64))])

ProcessMetrics ==
    TStruct([Memory |-> Field("memory", TPtr(MemoryMetrics)),
             EventLoopDelay |-> Field("event_loop_delay", TPtr(TFloat64)),
             Uptime |-> Field("uptime_in_millis", TPtr(TFloat64))])

ControlGroupCPU == TStruct([CPUPercent |-> Field("cpu_percent", TPtr(TFloat64))])

CPUMetrics == TStruct([ControlGroup |-> Field("cgroup", TPtr(ControlGroupCPU))])

LoadMetrics ==
    TStruct([Load1m |-> Field("1m", TPtr(TFloat64)),
             Load5m |-> Field("5m", TPtr(TFloat64)),
             Load15m |-> Field("15m", TPtr(TFloat64))])

OSMemoryMetrics ==
    TStruct([TotalBytes |-> Field("total_in_bytes", TPtr(TInt64)),
             FreeBytes |-> Field("free_in_bytes", TPtr(TInt64)),
             UsedBytes |-> Field("used_in_bytes", TPtr(TInt64))])

OSMetrics ==
    TStruct([CPU |-> Field("cpu", TPtr(CPUMetrics)),
             Load |-> Field("load", TPtr(LoadMetrics)),
             Memory |-> Field("memory", TPtr(OSMemoryMetrics))])

RequestMetrics ==
    TStruct([Total |-> Field("total", TPtr(TInt64)),
             Disconnects |-> Field("disconnects", TPtr(TInt64)),
             StatusCodes |-> Field("status_codes", TMap(TInt))])

ResponseTimeMetrics ==
    TStruct([Avg |-> Field("avg_in_millis", TPtr(TFloat64)),
             Max |-> Field("max_in_millis", TPtr(TFloat64))])

MetricsInfo ==
    TStruct([CollectedAt |-> Field("collected_at", TString),
             ConcurrentConnections |-> Field("concurrent_connections", TPtr(TInt64)),
             Process |-> Field("process", ProcessMetrics),
             OS |-> Field("os", TPtr(OSMetrics)),
             Requests |-> Field("requests", TPtr(RequestMetrics)),
             ResponseTimes |-> Field("response_times", TPtr(ResponseTimeMetrics))])

KibanaStatus ==
    TStruct([Name |-> Field("name", TString),
             UUID |-> Field("uuid", TString),
             Version |-> Field("version", VersionInfo),
             Status |-> Field("status", StatusInfo),
             Metrics |-> Field("metrics", MetricsInfo)])

(***************************************************************************)
(* json.Decoder.Decode into a zero value of a Go type: an absent key or a   *)
(* JSON null leaves the zero value (nil for pointers and maps, 0, "" for    *)
(* plain fields); keys the type does not name are ignored; a JSON value of  *)
(* the wrong kind for its field is an error.                                *)
(***************************************************************************)
JsonKind(ty) ==
    CASE ty.t = "string" -> "str"
      [] ty.t \in {"int", "int64", "float64"} -> "num"
      [] ty.t = "bool" -> "bool"
      [] ty.t \in {"map", "struct"} -> "obj"

RECURSIVE Unmarshal(_, _)
Unmarshal(ty, j) ==
    CASE ty.t = "string" -> IF j.k = "str" THEN j.s ELSE ""
      [] ty.t \in {"int", "int64"} -> IF j.k = "num" THEN j.n ELSE 0
      [] ty.t = "float64" -> IF j.k = "num" THEN Float64(j.n) ELSE Float64(0)
      [] ty.t = "bool" -> IF j.k = "bool" THEN j.b ELSE FALSE
      [] ty.t = "ptr" ->
            IF j.k \in {"absent", "null"} THEN Nil ELSE Ptr(Unmarshal(ty.e, j))
      [] ty.t = "map" ->
            IF j.k = "obj"
            THEN [isNil |-> FALSE, kv |-> [key \in DOMAIN j.o |-> Unmarshal(ty.e, j.o[key])]]
            ELSE NilMap
      [] ty.t = "struct" ->
            [g \in DOMAIN ty.f |-> Unmarshal(ty.f[g].ty, Get(j, ty.f[g].json))]

RECURSIVE TypeError(_, _)
TypeError(ty, j) ==
    IF j.k \in {"absent", "null"} THEN FALSE
    ELSE CASE ty.t = "ptr" -> TypeError(ty.e, j)
           [] ty.t = "map" ->
                 \/ j.k # "obj"
                 \/ \E key \in DOMAIN j.o : TypeError(ty.e, j.o[key])
           [] ty.t = "struct" ->
                 \/ j.k # "obj"
                 \/ \E g \in DOMAIN ty.f : TypeError(ty.f[g].ty, Get(j, ty.f[g].json))
           [] OTHER -> j.k # JsonKind(ty)

(***************************************************************************)
(* Response bodies: text that is not JSON (the empty body included) or a    *)
(* JSON value.                                                              *)
(***************************************************************************)
TextBody(s) == [k |-> "text", s |-> s]
JsonBody(j) == [k |-> "json", j |-> j]
\* a body whose read fails after the bytes s
BrokenBody(s) == [k |-> "broken", s |-> s]

\* body, _ := io.ReadAll(resp.Body): the bytes read, the read error dropped
ReadAll(body) == IF body.k = "broken" THEN TextBody(body.s) ELSE body

\* json.NewDecoder(body).Decode(&status)
Decode(body) ==
    IF body.k # "json" \/ TypeError(KibanaStatus, body.j)
    THEN [err |-> TRUE, status |-> Unmarshal(KibanaStatus, JAbsent)]
    ELSE [err |-> FALSE, status |-> Unmarshal(KibanaStatus, body.j)]


(***************************************************************************)
(* Samples: prometheus.MustNewConstMetric(desc, valueType, value, labels).  *)
(* A descriptor is named by its field of KibanaCollector.                   *)
(***************************************************************************)
GaugeValue == "gauge"
CounterValue == "counter"

MustNewConstMetric(desc, valueType, value, labelValues) ==
    [desc |-> desc, vt |-> valueType, value |-> value, labels |-> labelValues]

\* a send on ch that happens only under its condition
When(cond, metric) == IF cond THEN <<metric>> ELSE <<>>

\* the value of a core service: 1.0 if its level is "available", else 0.0
ServiceValue(svc) == IF Deref(svc).Level = "available" THEN Float64(1) ELSE Float64(0)

(***************************************************************************)
(* exportStatus: the samples sent for a decoded status, in order.  coreOrder*)
(* and codeOrder are the orders in which the two map ranges visit their     *)
(* keys.  Reading the level of a nil core entry is a nil pointer            *)
(* dereference: the goroutine panics there, after the samples sent so far.  *)
(***************************************************************************)
\* a faulty mapping without the -1 of unknown levels
OverallValueZero(level) ==
    CASE level \in {"available", "green"} -> Float64(1)
      [] level \in {"degraded", "yellow"} -> Rat(1, 2)
      [] OTHER -> Float64(0)

OverallValue(level) ==
    CASE level \in {"available", "green"} -> Float64(1)
      [] level \in {"degraded", "yellow"} -> Rat(1, 2)
      [] level \in {"unavailable", "red"} -> Float64(0)
      [] OTHER -> Float64(-1)

\* how many core entries the range visits before it panics (all, if none is nil)
CoreVisited(core, coreOrder) ==
    LET nils == {i \in 1..Len(coreOrder) : core.kv[coreOrder[i]] = Nil}
    IN  IF nils = {} THEN Len(coreOrder)
        ELSE (CHOOSE i \in nils : \A k \in nils : i <= k) - 1

ExportCore(core, coreOrder) ==
    [i \in 1..CoreVisited(core, coreOrder) |->
        MustNewConstMetric("statusCore", GaugeValue,
                           ServiceValue(core.kv[coreOrder[i]]), <<coreOrder[i]>>)]

ExportServices(core) ==
    When(MapGet(core, "elasticsearch") # Nil,
         MustNewConstMetric("statusElastic", GaugeValue,
                            ServiceValue(MapGet(core, "elasticsearch")), <<>>))
    \o When(MapGet(core, "savedObjects") # Nil,
            MustNewConstMetric("statusSavedObjects", GaugeValue,
                               ServiceValue(MapGet(core, "savedObjects")), <<>>))

\* a faulty heap export that leaves the size limit out
ExportHeapNoLimit(heap) ==
    <<MustNewConstMetric("heapTotal", GaugeValue, Float64(heap.TotalBytes), <<>>),
      MustNewConstMetric("heapUsed", GaugeValue, Float64(heap.UsedBytes), <<>>)>>

ExportHeap(heap) ==
    <<MustNewConstMetric("heapTotal", GaugeValue, Float64(heap.TotalBytes), <<>>),
      MustNewConstMetric("heapUsed", GaugeValue, Float64(heap.UsedBytes), <<>>),
      MustNewConstMetric("heapSizeLimit", GaugeValue, Float64(heap.SizeLimit), <<>>)>>

ExportProcessMemory(memory) ==
    IF memory = Nil THEN <<>>
    ELSE LET mem == Deref(memory)
         IN  (IF mem.Heap = Nil THEN <<>> ELSE ExportHeap(Deref(mem.Heap)))
             \o When(mem.Resident # Nil,
                     MustNewConstMetric("residentSet", GaugeValue,
                                        Float64(Deref(mem.Resident)), <<>>))

ExportProcess(process) ==
    ExportProcessMemory(process.Memory)
    \o When(process.EventLoopDelay # Nil,
            MustNewConstMetric("eventLoop", GaugeValue,
                               DivBy1000(Deref(process.EventLoopDelay)), <<>>))
    \o When(process.Uptime # Nil,
            MustNewConstMetric("uptime", GaugeValue,
                               DivBy1000(Deref(process.Uptime)), <<>>))

ExportStatusCodes(codes, codeOrder) ==
    IF codes.isNil THEN <<>>
    ELSE [i \in 1..Len(codeOrder) |->
            MustNewConstMetric("requestsTotal", CounterValue,
                               Float64(codes.kv[codeOrder[i]]), <<codeOrder[i]>>)]

ExportRequests(requests, codeOrder) ==
    IF requests = Nil THEN <<>>
    ELSE LET reqs == Deref(requests)
         IN  When(reqs.Total # Nil,
                  MustNewConstMetric("requestsTotal", CounterValue,
                                     Float64(Deref(reqs.Total)), <<"total">>))
             \o When(reqs.Disconnects # Nil,
                     MustNewConstMetric("requestsTotal", CounterValue,
                                        Float64(Deref(reqs.Disconnects)), <<"disconnects">>))
             \o ExportStatusCodes(reqs.StatusCodes, codeOrder)

ExportResponseTimes(responseTimes) ==
    IF responseTimes = Nil THEN <<>>
    ELSE LET rt == Deref(responseTimes)
         IN  When(rt.Avg # Nil,
                  MustNewConstMetric("responseTime", GaugeValue,
                                     DivBy1000(Deref(rt.Avg)), <<"avg">>))
             \o When(rt.Max # Nil,
                     MustNewConstMetric("responseTime", GaugeValue,
                                        DivBy1000(Deref(rt.Max)), <<"max">>))

ExportOSCPU(cpu) ==
    When(/\ cpu # Nil
         /\ Deref(cpu).ControlGroup # Nil
         /\ Deref(Deref(cpu).ControlGroup).CPUPercent # Nil,
         MustNewConstMetric("osCPUPercent", GaugeValue,
                            Deref(Deref(Deref(cpu).ControlGroup).CPUPercent), <<>>))

ExportOSLoad(load) ==
    IF load = Nil THEN <<>>
    ELSE When(Deref(load).Load1m # Nil,
              MustNewConstMetric("osLoadAvg1m", GaugeValue, Deref(Deref(load).Load1m), <<>>))
         \o When(Deref(load).Load5m # Nil,
                 MustNewConstMetric("osLoadAvg5m", GaugeValue, Deref(Deref(load).Load5m), <<>>))
         \o When(Deref(load).Load15m # Nil,
                 MustNewConstMetric("osLoadAvg15m", GaugeValue, Deref(Deref(load).Load15m), <<>>))

ExportOSMemory(memory) ==
    IF memory = Nil THEN <<>>
    ELSE When(Deref(memory).TotalBytes # Nil,
              MustNewConstMetric("osMemTotal", GaugeValue,
                                 Float64(Deref(Deref(memory).TotalBytes)), <<>>))
         \o When(Deref(memory).FreeBytes # Nil,
                 MustNewConstMetric("osMemFree", GaugeValue,
                                    Float64(Deref(Deref(memory).FreeBytes)), <<>>))
         \o When(Deref(memory).UsedBytes # Nil,
                 MustNewConstMetric("osMemUsed", GaugeValue,
                                    Float64(Deref(Deref(memory).UsedBytes)), <<>>))

ExportOS(os) ==
    IF os = Nil THEN <<>>
    ELSE ExportOSCPU(Deref(os).CPU) \o ExportOSLoad(Deref(os).Load)
         \o ExportOSMemory(Deref(os).Memory)

exportStatus(status, coreOrder, codeOrder) ==
    LET core == status.Status.Core
        head == <<MustNewConstMetric("statusOverall", GaugeValue,
                                     OverallValue(status.Status.Overall.Level), <<>>)>>
                \o ExportCore(core, coreOrder)
    IN  IF CoreVisited(core, coreOrder) < Len(coreOrder)
        THEN [panicked |-> TRUE, samples |-> head]
        ELSE [panicked |-> FALSE,
              samples |-> head
                          \o ExportServices(core)
                          \o ExportProcess(status.Metrics.Process)
                          \o ExportRequests(status.Metrics.Requests, codeOrder)
                          \o When(status.Metrics.ConcurrentConnections # Nil,
                                  MustNewConstMetric("concurrentConn", GaugeValue,
                                      Float64(Deref(status.Metrics.ConcurrentConnections)),
                                      <<>>))
                          \o ExportResponseTimes(status.Metrics.ResponseTimes)
                          \o ExportOS(status.Metrics.OS)]

\* the orders in which a range over a Go map may visit its keys
RangeOrders(m) ==
    {o \in [1..Cardinality(MapKeys(m)) -> MapKeys(m)] :
        \A i, k \in DOMAIN o : i # k => o[i] # o[k]}


(***************************************************************************)
(* The upstream: status documents /api/status may answer with.              *)
(***************************************************************************)
Service(level) == JObj([level |-> JStr(level)])

FullMetrics ==
    JObj([concurrent_connections |-> JNum(7),
          process |-> JObj([
              memory |-> JObj([
                  heap |-> JObj([total_in_bytes |-> JNum(100),
                                 used_in_bytes |-> JNum(50),
                                 size_limit |-> JNum(200)]),
                  resident_set_size_in_bytes |-> JNum(300)]),
              event_loop_delay |-> JNum(250),
              uptime_in_millis |-> JNum(60000)]),
          os |-> JObj([
              cpu |-> JObj([cgroup |-> JObj([cpu_percent |-> JNum(12)])]),
              load |-> JObj([m1 \in {"1m", "5m", "15m"} |->
                               JNum(CASE m1 = "1m" -> 1 [] m1 = "5m" -> 2 [] OTHER -> 3)]),
              memory |-> JObj([total_in_bytes |-> JNum(800),
                               free_in_bytes |-> JNum(500),
                               used_in_bytes |-> JNum(350)])]),
          requests |-> JObj([total |-> JNum(40),
                             disconnects |-> JNum(2),
                             status_codes |-> JObj([c \in {"200"} |-> JNum(30)])]),
          response_times |-> JObj([avg_in_millis |-> JNum(15),
                                   max_in_millis |-> JNum(1500)])])

\* a document with every optional field present
FullDoc ==
    JObj([name |-> JStr("kibana"),
          status |-> JObj([overall |-> JObj([level |-> JStr("green")]),
                           core |-> JObj([elasticsearch |-> Service("available"),
                                          savedObjects |-> Service("available")])]),
          metrics |-> FullMetrics])

OverallPath == <<"status", "overall", "level">>
CorePath == <<"status", "core">>
CodesPath == <<"metrics", "requests", "status_codes">>
HeapPath == <<"metrics", "process", "memory", "heap">>

Levels == {"available", "green", "degraded", "yellow", "unavailable", "red", "critical", ""}

CoreNames == {"elasticsearch", "savedObjects", "http"}
CoreEntries == {Service("available"), Service("degraded"), JNull}
CoreMaps == UNION {[keys -> CoreEntries] : keys \in SUBSET CoreNames}

CodeNames == {"200", "404", "total"}
CodeMaps == UNION {[keys -> {JNum(3)}] : keys \in SUBSET CodeNames}

\* a full document with a third core subsystem and a second status code
WideDoc ==
    Put(Put(FullDoc, CorePath, JObj([key \in CoreNames |-> Service("available")])),
        CodesPath, JObj([c \in {"200", "404"} |-> JNum(3)]))

NumberPaths == {p \in Paths(FullDoc) : At(FullDoc, p).k = "num"}

Docs ==
    {FullDoc, WideDoc, JEmpty, JNull, JNum(1)}
    \cup {Remove(FullDoc, p) : p \in Paths(FullDoc)}
    \cup {Put(FullDoc, p, JNull) : p \in Paths(FullDoc)}
    \cup {Only(FullDoc, p) : p \in Paths(FullDoc)}
    \cup {Put(FullDoc, p, JNum(0)) : p \in NumberPaths}
    \cup {Put(FullDoc, OverallPath, JStr(l)) : l \in Levels}
    \cup {Put(FullDoc, CorePath, JObj(m)) : m \in CoreMaps}
    \cup {Put(FullDoc, CodesPath, JObj(m)) : m \in CodeMaps}
    \cup {Put(FullDoc, HeapPath, JStr("n/a")),
          Put(FullDoc, HeapPath, JObj([total_in_bytes |-> JStr("100")])),
          Put(FullDoc, <<"status">>, JObj([overall |-> JObj([level |-> JStr("green")]),
                                           state |-> JStr("green")]))}

\* http.StatusOK
StatusOK == 200
\* the other status codes the upstream answers with
ErrorCodes == {404, 503}

TransportError == [kind |-> "error", cause |-> "connection refused"]
TimeoutError == [kind |-> "error", cause |-> "timeout"]
Response(code, body) == [kind |-> "http", code |-> code, body |-> body]

TextBodies == {TextBody(""), TextBody("<html>")}

\* what the upstream may answer a request that it answers at all
Responses ==
    {TransportError}
    \cup {Response(StatusOK, JsonBody(d)) : d \in Docs}
    \cup {Response(StatusOK, b) : b \in TextBodies}
    \cup {Response(c, b) : c \in ErrorCodes, b \in TextBodies \cup {JsonBody(FullDoc)}}
    \cup {Response(c, BrokenBody("<ht")) : c \in {StatusOK} \cup ErrorCodes}

\* one answer of each kind, for the runs with concurrent callers
NullCoreDoc == Put(FullDoc, CorePath, JObj([elasticsearch |-> JNull]))

SomeResponses ==
    {TransportError,
     Response(StatusOK, JsonBody(FullDoc)),
     Response(StatusOK, JsonBody(NullCoreDoc)),
     Response(StatusOK, TextBody("")),
     Response(503, TextBody("<html>"))}

\* the answers that tell CheckHealth's outcomes apart (it never reads the body)
HealthResponses ==
    {TransportError}
    \cup {Response(c, b) : c \in {StatusOK} \cup ErrorCodes,
                           b \in {TextBody(""), JsonBody(FullDoc)}}


(***************************************************************************)
(* The descriptors of KibanaCollector, as NewKibanaCollector builds them,   *)
(* and Describe.                                                            *)
(***************************************************************************)
namespace == "kibana"

\* prometheus.BuildFQName: the non-empty parts joined by "_"
BuildFQName(ns, subsystem, name) ==
    IF name = "" THEN ""
    ELSE IF ns = "" /\ subsystem = "" THEN name
    ELSE IF ns = "" THEN subsystem \o "_" \o name
    ELSE IF subsystem = "" THEN ns \o "_" \o name
    ELSE ns \o "_" \o subsystem \o "_" \o name

\* prometheus.NewDesc(fqName, help, variableLabels, nil)
NewDesc(fqName, variableLabels) ==
    [fqName |-> fqName, variableLabels |-> variableLabels]

\* the descriptor fields NewKibanaCollector sets
NewKibanaCollector ==
    [up |-> NewDesc(BuildFQName(namespace, "", "up"), <<>>),
     statusOverall |-> NewDesc(BuildFQName(namespace, "status", "overall"), <<>>),
     statusCore |-> NewDesc(BuildFQName(namespace, "status", "core"), <<"name">>),
     statusElastic |-> NewDesc(BuildFQName(namespace, "status", "elasticsearch"), <<>>),
     statusSavedObjects |->
         NewDesc(BuildFQName(namespace, "status", "saved_objects"), <<>>),
     heapTotal |-> NewDesc(BuildFQName(namespace, "heap", "total_bytes"), <<>>),
     heapUsed |-> NewDesc(BuildFQName(namespace, "heap", "used_bytes"), <<>>),
     heapSizeLimit |-> NewDesc(BuildFQName(namespace, "heap", "size_limit_bytes"), <<>>),
     residentSet |-> NewDesc(BuildFQName(namespace, "memory", "resident_set_bytes"), <<>>),
     eventLoop |-> NewDesc(BuildFQName(namespace, "event_loop", "delay_seconds"), <<>>),
     requestsTotal |-> NewDesc(BuildFQName(namespace, "requests", "total"), <<"status">>),
     responseTime |->
         NewDesc(BuildFQName(namespace, "response_time", "seconds"), <<"quantile">>),
     concurrentConn |->
         NewDesc(BuildFQName(namespace, "concurrent_connections", "total"), <<>>),
     uptime |-> NewDesc(BuildFQName(namespace, "process", "uptime_seconds"), <<>>),
     processMemory |->
         NewDesc(BuildFQName(namespace, "process", "memory_bytes"), <<"type">>),
     osCPUPercent |-> NewDesc(BuildFQName(namespace, "os", "cpu_percent"), <<>>),
     osLoadAvg1m |-> NewDesc(BuildFQName(namespace, "os", "load_average_1m"), <<>>),
     osLoadAvg5m |-> NewDesc(BuildFQName(namespace, "os", "load_average_5m"), <<>>),
     osLoadAvg15m |-> NewDesc(BuildFQName(namespace, "os", "load_average_15m"), <<>>),
     osMemTotal |-> NewDesc(BuildFQName(namespace, "os", "memory_total_bytes"), <<>>),
     osMemFree |-> NewDesc(BuildFQName(namespace, "os", "memory_free_bytes"), <<>>),
     osMemUsed |-> NewDesc(BuildFQName(namespace, "os", "memory_used_bytes"), <<>>),
     scrapeDuration |-> NewDesc(BuildFQName(namespace, "scrape", "duration_seconds"), <<>>),
     scrapeSuccess |-> NewDesc(BuildFQName(namespace, "scrape", "success"), <<>>)]

\* what Describe sends on ch, in the order of its sends
Describe(c) ==
    <<c.up, c.statusOverall, c.statusCore, c.statusElastic, c.statusSavedObjects,
      c.heapTotal, c.heapUsed, c.heapSizeLimit, c.residentSet, c.eventLoop,
      c.requestsTotal, c.responseTime, c.concurrentConn,
      c.uptime, c.processMemory,
      c.osCPUPercent, c.osLoadAvg1m, c.osLoadAvg5m, c.osLoadAvg15m,
      c.osMemTotal, c.osMemFree, c.osMemUsed,
      c.scrapeDuration, c.scrapeSuccess>>


(***************************************************************************)
(* The exporter process: scrape callers running Collect, the readiness      *)
(* probe running CheckHealth through /ready, the registry calling Describe, *)
(* the /health handler, and the collector's mutex.                          *)
(***************************************************************************)
VARIABLES
    config,     \* Config: base URL, credentials, request timeout (0 = none)
    descs,      \* the descriptor fields of KibanaCollector
    mutex,      \* KibanaCollector.mutex: Unlocked or the caller that holds it
    pc,         \* where each scrape caller is in Collect
    inflight,   \* the upstream request of each caller, while there is one
    attempts,   \* the requests each caller has tried to make in its call
    pass,       \* the Collect that has sent its samples: outcome and samples on ch
    earlier,    \* an earlier Collect fetched the full document (for the record)
    hpc,        \* where the readiness probe is in /ready and CheckHealth
    health,     \* what CheckHealth returned to the /ready handler
    ready,      \* what the /ready handler wrote, until the response is out
    live,       \* what the /health handler wrote, until the response is out
    described,  \* what the last Describe sent on ch
    crashed     \* the process died of an unrecovered panic

vars == <<config, descs, mutex, pc, inflight, attempts, pass, earlier,
          hpc, health, ready, live, described, crashed>>

Collectors == 1..NumCollectors
Probe == NumCollectors + 1
Callers == Collectors \cup {Probe}
\* the zero value of sync.Mutex
Unlocked == 0

Timeouts == {0, DefaultTimeout}

\* values of the -kibana-url, -username and -password flags
MalformedURLs == {"://localhost:5601"}
URLs == {"http://localhost:5601"} \cup MalformedURLs
Usernames == {"", "elastic"}
Passwords == {"", "changeme"}

\* http.NewRequest returns an error when the URL does not parse
NewRequestFails == config.KibanaURL \in MalformedURLs
NotSent == [kind |-> "unsent", cause |-> "missing protocol scheme"]

\* a faulty request that takes its credentials from the password
NewRequestByPassword(hangs, holder) ==
    [method |-> "GET", url |-> config.KibanaURL \o "/api/status", xsrf |-> "true",
     auth |-> IF config.Password # ""
              THEN Ptr([username |-> config.Username, password |-> config.Password])
              ELSE Nil,
     hangs |-> hangs, holder |-> holder]

\* http.NewRequest("GET", KibanaURL+"/api/status"), SetBasicAuth when a
\* username is configured, and the kbn-xsrf header
\* (hangs: the upstream will not answer it; holder: who held the mutex when
\* it left, kept for the record)
NewRequest(hangs, holder) ==
    [method |-> "GET", url |-> config.KibanaURL \o "/api/status", xsrf |-> "true",
     auth |-> IF config.Username # ""
              THEN Ptr([username |-> config.Username, password |-> config.Password])
              ELSE Nil,
     hangs |-> hangs, holder |-> holder]

\* client.Do(req): the upstream's answer, or the client's timeout when the
\* upstream never answers; without a timeout such a request never returns
Returns(req) == req.hangs => config.Timeout > 0
Answers(req, answers) == IF req.hangs THEN {TimeoutError} ELSE answers
Elapsed(req) == IF req.hangs THEN {config.Timeout} ELSE 0..MaxElapsed

NoError == [kind |-> "nil"]

\* a faulty scrapeKibana that reports a non-200 answer as a decoding failure
scrapeKibanaDecodingAll(resp) ==
    IF resp.kind = "unsent"
    THEN [err |-> [kind |-> "creating request", cause |-> resp.cause],
          status |-> Unmarshal(KibanaStatus, JAbsent)]
    ELSE IF resp.kind = "error"
    THEN [err |-> [kind |-> "making request", cause |-> resp.cause],
          status |-> Unmarshal(KibanaStatus, JAbsent)]
    ELSE LET decoded == Decode(resp.body)
         IN  IF resp.code # StatusOK \/ decoded.err
             THEN [err |-> [kind |-> "decoding response", cause |-> "json"],
                   status |-> decoded.status]
             ELSE [err |-> NoError, status |-> decoded.status]

\* scrapeKibana, from the failure of http.NewRequest or the answer of
\* client.Do on
scrapeKibana(resp) ==
    IF resp.kind = "unsent"
    THEN [err |-> [kind |-> "creating request", cause |-> resp.cause],
          status |-> Unmarshal(KibanaStatus, JAbsent)]
    ELSE IF resp.kind = "error"
    THEN [err |-> [kind |-> "making request", cause |-> resp.cause],
          status |-> Unmarshal(KibanaStatus, JAbsent)]
    ELSE IF resp.code # StatusOK
    THEN [err |-> [kind |-> "unexpected status", code |-> resp.code,
                   body |-> ReadAll(resp.body)],
          status |-> Unmarshal(KibanaStatus, JAbsent)]
    ELSE LET decoded == Decode(resp.body)
         IN  IF decoded.err
             THEN [err |-> [kind |-> "decoding response", cause |-> "json"],
                   status |-> decoded.status]
             ELSE [err |-> NoError, status |-> decoded.status]

\* a faulty Collect that goes on to exportStatus after a failed fetch
CollectNoReturn(scraped, duration, coreOrder, codeOrder) ==
    LET ok == IF scraped.err # NoError THEN 0 ELSE 1
        export == exportStatus(scraped.status, coreOrder, codeOrder)
    IN  [panicked |-> export.panicked,
         samples |-> <<MustNewConstMetric("scrapeDuration", GaugeValue,
                                          Float64(duration), <<>>),
                       MustNewConstMetric("up", GaugeValue, Float64(ok), <<>>),
                       MustNewConstMetric("scrapeSuccess", GaugeValue, Float64(ok), <<>>)>>
                     \o export.samples]

\* a faulty Collect that sends up and scrape_success after the translation
CollectUpLast(scraped, duration, coreOrder, codeOrder) ==
    LET first == <<MustNewConstMetric("scrapeDuration", GaugeValue, Float64(duration), <<>>)>>
        export == exportStatus(scraped.status, coreOrder, codeOrder)
    IN  IF scraped.err # NoError
        THEN [panicked |-> FALSE,
              samples |-> first
                  \o <<MustNewConstMetric("up", GaugeValue, Float64(0), <<>>),
                       MustNewConstMetric("scrapeSuccess", GaugeValue, Float64(0), <<>>)>>]
        ELSE [panicked |-> export.panicked,
              samples |-> first
                  \o export.samples
                  \o <<MustNewConstMetric("up", GaugeValue, Float64(1), <<>>),
                       MustNewConstMetric("scrapeSuccess", GaugeValue, Float64(1), <<>>)>>]

\* the body of Collect between Lock and return: what it sends on ch
Collect(scraped, duration, coreOrder, codeOrder) ==
    LET first == <<MustNewConstMetric("scrapeDuration", GaugeValue, Float64(duration), <<>>)>>
        export == exportStatus(scraped.status, coreOrder, codeOrder)
    IN  IF scraped.err # NoError
        THEN [panicked |-> FALSE,
              samples |-> first
                  \o <<MustNewConstMetric("up", GaugeValue, Float64(0), <<>>),
                       MustNewConstMetric("scrapeSuccess", GaugeValue, Float64(0), <<>>)>>]
        ELSE [panicked |-> export.panicked,
              samples |-> first
                  \o <<MustNewConstMetric("up", GaugeValue, Float64(1), <<>>),
                       MustNewConstMetric("scrapeSuccess", GaugeValue, Float64(1), <<>>)>>
                  \o export.samples]

\* a faulty CheckHealth that decodes the body as scrapeKibana does
CheckHealthDecoding(resp) ==
    IF resp.kind = "unsent" THEN [kind |-> "creating request", cause |-> resp.cause]
    ELSE IF resp.kind = "error" THEN [kind |-> "making request", cause |-> resp.cause]
    ELSE IF resp.code # StatusOK THEN [kind |-> "kibana returned status", code |-> resp.code]
    ELSE IF Decode(resp.body).err THEN [kind |-> "decoding response", cause |-> "json"]
    ELSE NoError

\* CheckHealth, from the failure of http.NewRequest or the answer of
\* client.Do on: nil or an error
CheckHealth(resp) ==
    IF resp.kind = "unsent" THEN [kind |-> "creating request", cause |-> resp.cause]
    ELSE IF resp.kind = "error" THEN [kind |-> "making request", cause |-> resp.cause]
    ELSE IF resp.code # StatusOK THEN [kind |-> "kibana returned status", code |-> resp.code]
    ELSE NoError

\* err.Error() of what CheckHealth returns: it wraps no error of its callees
Error(err) ==
    IF err.kind = "kibana returned status"
    THEN "kibana returned status " \o ToString(err.code)
    ELSE err.cause

\* what a handler writes: WriteHeader(code) and Write(body)
Written(code, body) == [code |-> code, body |-> body]

\* a faulty /ready handler that answers READY whatever CheckHealth returns
ReadyHandlerAlways(err) == Written(StatusOK, "READY")

\* the /ready handler, from what CheckHealth returned on
ReadyHandler(err) ==
    IF err # NoError
    THEN Written(503, "NOT READY: " \o Error(err))
    ELSE Written(StatusOK, "READY")

\* the /health handler
HealthHandler == Written(StatusOK, "OK")

StatusCodesOf(status) ==
    IF status.Metrics.Requests = Nil THEN NilMap
    ELSE Deref(status.Metrics.Requests).StatusCodes

Init ==
    /\ config \in [KibanaURL : URLs, Username : Usernames, Password : Passwords,
                   Timeout : Timeouts]
    /\ descs = NewKibanaCollector
    /\ mutex = Unlocked
    /\ pc = [p \in Collectors |-> "idle"]
    /\ inflight = [c \in Callers |-> Nil]
    /\ attempts = [c \in Callers |-> 0]
    /\ pass = Nil
    /\ earlier = FALSE
    /\ hpc = "idle"
    /\ health = Nil
    /\ ready = Nil
    /\ live = Nil
    /\ described = Nil
    /\ crashed = FALSE

\* a scrape request arrives: Collect is called and reaches mutex.Lock()
CollectCall(p) ==
    /\ ~crashed
    /\ pc[p] = "idle"
    /\ pc' = [pc EXCEPT ![p] = "Lock"]
    /\ UNCHANGED <<config, descs, mutex, inflight, attempts, pass, earlier,
                   hpc, health, ready, live, described, crashed>>

\* a faulty Lock that does not wait for the holder
CanLockHeld(p) == TRUE

\* mutex.Lock() returns once the mutex is free

CanLock(p) == mutex = Unlocked

Lock(p) ==
    /\ ~crashed
    /\ pc[p] = "Lock"
    /\ CanLock(p)
    /\ mutex' = p
    /\ pc' = [pc EXCEPT ![p] = "scrape"]
    /\ UNCHANGED <<config, descs, inflight, attempts, pass, earlier,
                   hpc, health, ready, live, described, crashed>>

\* scrapeKibana up to client.Do: the request leaves
ScrapeRequest(p) ==
    /\ ~crashed
    /\ pc[p] = "scrape"
    /\ ~NewRequestFails
    /\ \E hangs \in BOOLEAN :
          inflight' = [inflight EXCEPT ![p] = Ptr(NewRequest(hangs, mutex))]
    /\ attempts' = [attempts EXCEPT ![p] = @ + 1]
    /\ pc' = [pc EXCEPT ![p] = "Do"]
    /\ UNCHANGED <<config, descs, mutex, pass, earlier,
                   hpc, health, ready, live, described, crashed>>

\* scrapeKibana returns the error of http.NewRequest; Collect sends its
\* failure samples and runs up to its return
ScrapeNoRequest(p) ==
    /\ ~crashed
    /\ pc[p] = "scrape"
    /\ NewRequestFails
    /\ \E duration \in 0..MaxElapsed :
          LET scraped == scrapeKibana(NotSent)
              out == Collect(scraped, duration, <<>>, <<>>)
          IN  pass' = Ptr([by |-> p, resp |-> NotSent, err |-> scraped.err,
                           panicked |-> out.panicked, samples |-> out.samples])
    /\ attempts' = [attempts EXCEPT ![p] = @ + 1]
    /\ pc' = [pc EXCEPT ![p] = "return"]
    /\ UNCHANGED <<config, descs, mutex, inflight, earlier,
                   hpc, health, ready, live, described, crashed>>

\* a faulty Collect that fetches once more after a failed fetch
CollectSendRetrying(p, answers) ==
    /\ ~crashed
    /\ pc[p] = "Do"
    /\ Returns(Deref(inflight[p]))
    /\ \E resp \in Answers(Deref(inflight[p]), answers),
          duration \in Elapsed(Deref(inflight[p])) :
          LET scraped == scrapeKibana(resp)
          IN  IF scraped.err # NoError /\ attempts[p] < 2
              THEN /\ pc' = [pc EXCEPT ![p] = "scrape"]
                   /\ UNCHANGED <<pass, crashed, mutex>>
              ELSE \E coreOrder \in RangeOrders(scraped.status.Status.Core),
                      codeOrder \in RangeOrders(StatusCodesOf(scraped.status)) :
                      LET out == Collect(scraped, duration, coreOrder, codeOrder)
                      IN  /\ pass' = Ptr([by |-> p, resp |-> resp, err |-> scraped.err,
                                          panicked |-> out.panicked,
                                          samples |-> out.samples])
                          /\ crashed' = out.panicked
                          /\ mutex' = IF out.panicked THEN Unlocked ELSE mutex
                          /\ pc' = [pc EXCEPT
                                      ![p] = IF out.panicked THEN "panic" ELSE "return"]
    /\ inflight' = [inflight EXCEPT ![p] = Nil]
    /\ UNCHANGED <<config, descs, attempts, earlier, hpc, health, ready, live, described>>

\* client.Do returns; the rest of Collect runs up to its return.  A panic in
\* exportStatus runs the deferred Unlock and, unrecovered, ends the process.
CollectSend(p, answers) ==
    /\ ~crashed
    /\ pc[p] = "Do"
    /\ Returns(Deref(inflight[p]))
    /\ \E resp \in Answers(Deref(inflight[p]), answers),
          duration \in Elapsed(Deref(inflight[p])) :
          LET scraped == scrapeKibana(resp)
          IN  \E coreOrder \in RangeOrders(scraped.status.Status.Core),
                 codeOrder \in RangeOrders(StatusCodesOf(scraped.status)) :
                 LET out == Collect(scraped, duration, coreOrder, codeOrder)
                 IN  /\ pass' = Ptr([by |-> p, resp |-> resp, err |-> scraped.err,
                                     panicked |-> out.panicked, samples |-> out.samples])
                     /\ crashed' = out.panicked
                     /\ mutex' = IF out.panicked THEN Unlocked ELSE mutex
                     /\ pc' = [pc EXCEPT ![p] = IF out.panicked THEN "panic" ELSE "return"]
    /\ inflight' = [inflight EXCEPT ![p] = Nil]
    /\ UNCHANGED <<config, descs, attempts, earlier, hpc, health, ready, live, described>>

\* Collect returns: the deferred mutex.Unlock() runs, the samples are handed
\* over and nothing of the pass stays in the collector
CollectReturn(p) ==
    /\ ~crashed
    /\ pc[p] = "return"
    /\ mutex' = Unlocked
    /\ pass' = Nil
    /\ attempts' = [attempts EXCEPT ![p] = 0]
    /\ earlier' = (earlier \/ Deref(pass).resp = Response(StatusOK, JsonBody(FullDoc)))
    /\ pc' = [pc EXCEPT ![p] = "idle"]
    /\ UNCHANGED <<config, descs, inflight, hpc, health, ready, live, described, crashed>>

\* a faulty CheckHealth that takes the collection lock
HealthRequestLocking ==
    /\ ~crashed
    /\ hpc = "idle"
    /\ ~NewRequestFails
    /\ mutex = Unlocked
    /\ mutex' = Probe
    /\ \E hangs \in BOOLEAN :
          inflight' = [inflight EXCEPT ![Probe] = Ptr(NewRequest(hangs, mutex))]
    /\ attempts' = [attempts EXCEPT ![Probe] = @ + 1]
    /\ hpc' = "Do"
    /\ UNCHANGED <<config, descs, pc, pass, earlier, health, ready, live,
                   described, crashed>>

\* the /ready handler calls CheckHealth: the request leaves
HealthRequest ==
    /\ ~crashed
    /\ hpc = "idle"
    /\ ~NewRequestFails
    /\ \E hangs \in BOOLEAN :
          inflight' = [inflight EXCEPT ![Probe] = Ptr(NewRequest(hangs, mutex))]
    /\ attempts' = [attempts EXCEPT ![Probe] = @ + 1]
    /\ hpc' = "Do"
    /\ UNCHANGED <<config, descs, mutex, pc, pass, earlier, health, ready, live,
                   described, crashed>>

\* the /ready handler calls CheckHealth, which returns the error of
\* http.NewRequest
HealthNoRequest ==
    /\ ~crashed
    /\ hpc = "idle"
    /\ NewRequestFails
    /\ health' = Ptr([resp |-> NotSent, err |-> CheckHealth(NotSent), holder |-> mutex])
    /\ attempts' = [attempts EXCEPT ![Probe] = @ + 1]
    /\ hpc' = "respond"
    /\ UNCHANGED <<config, descs, mutex, pc, inflight, pass, earlier,
                   ready, live, described, crashed>>

\* client.Do returns and CheckHealth returns nil or the error
HealthReturn ==
    /\ ~crashed
    /\ hpc = "Do"
    /\ Returns(Deref(inflight[Probe]))
    /\ \E resp \in Answers(Deref(inflight[Probe]), HealthResponses) :
          health' = Ptr([resp |-> resp, err |-> CheckHealth(resp),
                         holder |-> Deref(inflight[Probe]).holder])
    /\ inflight' = [inflight EXCEPT ![Probe] = Nil]
    /\ hpc' = "respond"
    /\ UNCHANGED <<config, descs, mutex, pc, attempts, pass, earlier, ready, live,
                   described, crashed>>

\* the /ready handler writes READY or NOT READY
ReadyRespond ==
    /\ ~crashed
    /\ hpc = "respond"
    /\ ready' = Ptr(ReadyHandler(Deref(health).err))
    /\ health' = Nil
    /\ hpc' = "written"
    /\ UNCHANGED <<config, descs, mutex, pc, inflight, attempts, pass, earlier,
                   live, described, crashed>>

\* the /ready handler returns and its response is out
ReadyDone ==
    /\ ~crashed
    /\ hpc = "written"
    /\ hpc' = "idle"
    /\ ready' = Nil
    /\ attempts' = [attempts EXCEPT ![Probe] = 0]
    /\ UNCHANGED <<config, descs, mutex, pc, inflight, pass, earlier,
                   health, live, described, crashed>>

\* the /health handler runs
HealthRespond ==
    /\ ~crashed
    /\ live = Nil
    /\ live' = Ptr(HealthHandler)
    /\ UNCHANGED <<config, descs, mutex, pc, inflight, attempts, pass, earlier,
                   hpc, health, ready, described, crashed>>

\* the /health handler returns and its response is out
HealthDone ==
    /\ ~crashed
    /\ live # Nil
    /\ live' = Nil
    /\ UNCHANGED <<config, descs, mutex, pc, inflight, attempts, pass, earlier,
                   hpc, health, ready, described, crashed>>

\* a faulty Describe that overwrites the descriptor it sent first
DescribeCallOverwriting ==
    /\ ~crashed
    /\ described' = Ptr(Describe(descs))
    /\ descs' = [descs EXCEPT !.up = descs.scrapeSuccess]
    /\ UNCHANGED <<config, mutex, pc, inflight, attempts, pass, earlier,
                   hpc, health, ready, live, crashed>>

\* the registry calls Describe: it sends every descriptor field on ch
DescribeCall ==
    /\ ~crashed
    /\ described' = Ptr(Describe(descs))
    /\ UNCHANGED <<config, descs, mutex, pc, inflight, attempts, pass, earlier,
                   hpc, health, ready, live, crashed>>

(***************************************************************************)
(* Spec: concurrent scrape callers and the readiness probe, the upstream    *)
(* answering with one answer of each kind.                                  *)
(***************************************************************************)
Next ==
    \/ \E p \in Collectors : CollectCall(p)
    \/ \E p \in Collectors : Lock(p)
    \/ \E p \in Collectors : ScrapeRequest(p)
    \/ \E p \in Collectors : ScrapeNoRequest(p)
    \/ \E p \in Collectors : CollectSend(p, SomeResponses)
    \/ \E p \in Collectors : CollectReturn(p)
    \/ HealthRequest
    \/ HealthNoRequest
    \/ HealthReturn
    \/ ReadyRespond
    \/ ReadyDone

Spec == Init /\ [][Next]_vars

(***************************************************************************)
(* LiveSpec: Spec with the scheduling the runtime gives.  A goroutine that  *)
(* can run does run (weak fairness of each step of Collect), and a Lock     *)
(* that keeps finding the mutex free at times is eventually granted         *)
(* (sync.Mutex hands the mutex to a starving waiter).  Nothing makes a      *)
(* scraper call Collect or a prober call /ready.                            *)
(***************************************************************************)
Fairness ==
    \A p \in Collectors :
        /\ SF_vars(Lock(p))
        /\ WF_vars(ScrapeRequest(p))
        /\ WF_vars(ScrapeNoRequest(p))
        /\ WF_vars(CollectSend(p, SomeResponses))
        /\ WF_vars(CollectReturn(p))

LiveSpec == Spec /\ Fairness

(***************************************************************************)
(* SerialSpec: one scrape caller making pass after pass, the upstream       *)
(* answering with every answer of Responses.                                *)
(***************************************************************************)
Scraper == CHOOSE p \in Collectors : TRUE

SerialNext ==
    \/ CollectCall(Scraper)
    \/ Lock(Scraper)
    \/ ScrapeRequest(Scraper)
    \/ ScrapeNoRequest(Scraper)
    \/ CollectSend(Scraper, Responses)
    \/ CollectReturn(Scraper)

SerialSpec == Init /\ [][SerialNext]_vars

(***************************************************************************)
(* ServeSpec: the HTTP server with all its handlers: one scrape caller,     *)
(* the readiness probe, the /health handler and the registry's Describe.    *)
(***************************************************************************)
ServeNext ==
    \/ CollectCall(Scraper)
    \/ Lock(Scraper)
    \/ ScrapeRequest(Scraper)
    \/ ScrapeNoRequest(Scraper)
    \/ CollectSend(Scraper, SomeResponses)
    \/ CollectReturn(Scraper)
    \/ HealthRequest
    \/ HealthNoRequest
    \/ HealthReturn
    \/ ReadyRespond
    \/ ReadyDone
    \/ HealthRespond
    \/ HealthDone
    \/ DescribeCall

ServeSpec == Init /\ [][ServeNext]_vars


(***************************************************************************)
(* Vocabulary of the properties.                                            *)
(***************************************************************************)
\* the callers between the start of their fetch and the end of their translation
Fetching == {p \in Collectors : pc[p] \in {"scrape", "Do", "return"}}

\* a Collect has sent its samples
Sent == pass # Nil
ThePass == Deref(pass)
Samples == ThePass.samples
\* the JSON document of the pass, when the upstream answered 200 with JSON
TheDoc == ThePass.resp.body.j

\* the fetch of the pass failed: transport error or timeout, non-200, or a
\* 200 whose body does not decode
FetchFailed ==
    \/ ThePass.resp.kind \in {"unsent", "error"}
    \/ ThePass.resp.code # StatusOK
    \/ ThePass.resp.body.k # "json"
    \/ ThePass.err # NoError

FetchSucceeded == Sent /\ ~FetchFailed

\* the samples of a descriptor with given label values
Of(desc, labels) ==
    {i \in DOMAIN Samples : Samples[i].desc = desc /\ Samples[i].labels = labels}

One(desc, labels) == Cardinality(Of(desc, labels)) = 1

Zero == [num |-> 0, den |-> 1]
Unit == [num |-> 1, den |-> 1]

(***************************************************************************)
(* C1: concurrent Collect calls never overlap in their fetch: at most one   *)
(* caller is between the start of its fetch and the end of its translation. *)
(***************************************************************************)
C1_SingleFetch == Cardinality(Fetching) <= 1

\* one caller fetching while another waits for the mutex
C1_Witness == \E p, q \in Collectors : pc[p] = "Do" /\ pc[q] = "Lock"

(***************************************************************************)
(* C2: a pass whose fetch failed sends exactly three samples, the scrape    *)
(* duration (>= 0), up = 0 and scrape_success = 0, and Collect returns.     *)
(***************************************************************************)
C2_FailureSamples ==
    (Sent /\ FetchFailed) =>
        /\ Len(Samples) = 3
        /\ One("scrapeDuration", <<>>) /\ One("up", <<>>) /\ One("scrapeSuccess", <<>>)
        /\ \A i \in DOMAIN Samples :
              /\ Samples[i].desc = "scrapeDuration" => Samples[i].value.num >= 0
              /\ Samples[i].desc \in {"up", "scrapeSuccess"} => Samples[i].value = Zero
        /\ ~ThePass.panicked
        /\ pc[ThePass.by] = "return"

\* a pass that got a 200 with a body that is not JSON
C2_Witness ==
    /\ Sent
    /\ ThePass.resp.kind = "http"
    /\ ThePass.resp.code = StatusOK
    /\ ThePass.resp.body.k = "text"
    /\ Len(Samples) = 3

(***************************************************************************)
(* C3: whatever the upstream answers, a document with absent or null parts  *)
(* included, Collect completes normally: it never panics and the process    *)
(* is never aborted.                                                        *)
(***************************************************************************)
C3_NeverPanics == ~crashed /\ (Sent => ~ThePass.panicked)


(***************************************************************************)
(* The translation table of the specification, read off the JSON payload.   *)
(***************************************************************************)
ProcessPath == <<"metrics", "process">>
MemoryPath == ProcessPath \o <<"memory">>
OSPath == <<"metrics", "os">>
RequestsPath == <<"metrics", "requests">>
TimesPath == <<"metrics", "response_times">>

Row(desc, labels, path) == [desc |-> desc, labels |-> labels, path |-> path]

\* one row per optional metric field: its descriptor, labels and payload path
OptionalRows ==
    {Row("heapTotal", <<>>, HeapPath \o <<"total_in_bytes">>),
     Row("heapUsed", <<>>, HeapPath \o <<"used_in_bytes">>),
     Row("heapSizeLimit", <<>>, HeapPath \o <<"size_limit">>),
     Row("residentSet", <<>>, MemoryPath \o <<"resident_set_size_in_bytes">>),
     Row("eventLoop", <<>>, ProcessPath \o <<"event_loop_delay">>),
     Row("uptime", <<>>, ProcessPath \o <<"uptime_in_millis">>),
     Row("requestsTotal", <<"total">>, RequestsPath \o <<"total">>),
     Row("requestsTotal", <<"disconnects">>, RequestsPath \o <<"disconnects">>),
     Row("concurrentConn", <<>>, <<"metrics", "concurrent_connections">>),
     Row("responseTime", <<"avg">>, TimesPath \o <<"avg_in_millis">>),
     Row("responseTime", <<"max">>, TimesPath \o <<"max_in_millis">>),
     Row("osCPUPercent", <<>>, OSPath \o <<"cpu", "cgroup", "cpu_percent">>),
     Row("osLoadAvg1m", <<>>, OSPath \o <<"load", "1m">>),
     Row("osLoadAvg5m", <<>>, OSPath \o <<"load", "5m">>),
     Row("osLoadAvg15m", <<>>, OSPath \o <<"load", "15m">>),
     Row("osMemTotal", <<>>, OSPath \o <<"memory", "total_in_bytes">>),
     Row("osMemFree", <<>>, OSPath \o <<"memory", "free_in_bytes">>),
     Row("osMemUsed", <<>>, OSPath \o <<"memory", "used_in_bytes">>)}

\* the keys of the JSON object at a path (none if there is no object there)
KeysAt(doc, path) == IF At(doc, path).k = "obj" THEN DOMAIN At(doc, path).o ELSE {}

CoreKeys == KeysAt(TheDoc, CorePath)
CodeKeys == KeysAt(TheDoc, CodesPath)

\* the payload holds nothing (or null) at the path
Absent(path) == ~Present(TheDoc, path)

\* the level of a core subsystem entry of the payload ("" when it has none)
CoreLevel(key) ==
    LET l == At(TheDoc, CorePath \o <<key, "level">>)
    IN  IF l.k = "str" THEN l.s ELSE ""

CoreRule(key) == IF CoreLevel(key) = "available" THEN Unit ELSE Zero

(***************************************************************************)
(* C4: a field of the translation table that is absent from the payload     *)
(* gets no sample in a successful pass (never a zero-valued one); the       *)
(* status-code map likewise.                                                *)
(***************************************************************************)
C4_AbsentNotEmitted ==
    (FetchSucceeded /\ CodeKeys \cap {"total", "disconnects"} = {}) =>
        /\ \A row \in OptionalRows : Absent(row.path) => Of(row.desc, row.labels) = {}
        /\ Absent(CodesPath) =>
              \A i \in DOMAIN Samples :
                 Samples[i].desc = "requestsTotal" =>
                    Samples[i].labels \in {<<"total">>, <<"disconnects">>}

(***************************************************************************)
(* C5: when every optional field is present, a successful pass sends        *)
(* exactly the samples of the table's rows (one per key of the core map     *)
(* and of the status-code map) besides up, scrape_success and the scrape    *)
(* duration.                                                                *)
(***************************************************************************)
AllPresent ==
    /\ \A row \in OptionalRows : Present(TheDoc, row.path)
    /\ Present(TheDoc, OverallPath)
    /\ Present(TheDoc, CorePath)
    /\ Present(TheDoc, CodesPath)
    /\ \A key \in CoreKeys : Present(TheDoc, CorePath \o <<key>>)
    /\ \A key \in CodeKeys : Present(TheDoc, CodesPath \o <<key>>)

Id(desc, labels) == [desc |-> desc, labels |-> labels]

TableIds ==
    {Id("scrapeDuration", <<>>), Id("up", <<>>), Id("scrapeSuccess", <<>>),
     Id("statusOverall", <<>>)}
    \cup {Id(row.desc, row.labels) : row \in OptionalRows}
    \cup {Id("statusCore", <<key>>) : key \in CoreKeys}
    \cup {Id("statusElastic", <<>>) : key \in CoreKeys \cap {"elasticsearch"}}
    \cup {Id("statusSavedObjects", <<>>) : key \in CoreKeys \cap {"savedObjects"}}
    \cup {Id("requestsTotal", <<key>>) : key \in CodeKeys}

TableCount ==
    4 + Cardinality(OptionalRows) + Cardinality(CoreKeys)
    + Cardinality(CoreKeys \cap {"elasticsearch", "savedObjects"}) + Cardinality(CodeKeys)

C5_FullDocument ==
    (FetchSucceeded /\ AllPresent) =>
        /\ {Id(Samples[i].desc, Samples[i].labels) : i \in DOMAIN Samples} = TableIds
        /\ Len(Samples) = TableCount

\* a full document with three core subsystems and two status codes
C5_Witness ==
    /\ FetchSucceeded /\ AllPresent
    /\ Cardinality(CoreKeys) = 3
    /\ Cardinality(CodeKeys) = 2
    /\ pc[ThePass.by] = "return"

(***************************************************************************)
(* C6: a successful pass sends exactly one status_overall sample, valued by *)
(* the overall level: available/green 1, degraded/yellow 0.5,               *)
(* unavailable/red 0, anything else (no level included) -1.                 *)
(***************************************************************************)
OverallLevel ==
    LET l == At(TheDoc, OverallPath)
    IN  IF l.k = "str" THEN l.s ELSE ""

C6_OverallStatus ==
    FetchSucceeded =>
        /\ One("statusOverall", <<>>)
        /\ \A i \in Of("statusOverall", <<>>) :
              /\ OverallLevel \in {"available", "green"} => Samples[i].value = Unit
              /\ OverallLevel \in {"degraded", "yellow"} =>
                    Samples[i].value = [num |-> 1, den |-> 2]
              /\ OverallLevel \in {"unavailable", "red"} => Samples[i].value = Zero
              /\ OverallLevel \notin {"available", "green", "degraded", "yellow",
                                      "unavailable", "red"} =>
                    Samples[i].value = [num |-> -1, den |-> 1]

\* a pass over a document whose overall level is none of the six known ones
C6_Witness ==
    /\ FetchSucceeded
    /\ OverallLevel = "critical"
    /\ \E i \in Of("statusOverall", <<>>) : Samples[i].value = [num |-> -1, den |-> 1]

(***************************************************************************)
(* C7: a successful pass sends, for every key of the core map, one          *)
(* status_core sample labelled with the key, 1 if the level is "available"  *)
(* and 0 otherwise; status_elasticsearch and status_saved_objects are sent  *)
(* exactly when their key is in the map, with the same value.               *)
(***************************************************************************)
ServiceSample(desc, key) ==
    /\ (Of(desc, <<>>) # {}) <=> (key \in CoreKeys)
    /\ key \in CoreKeys =>
          /\ One(desc, <<>>)
          /\ \A i \in Of(desc, <<>>) : Samples[i].value = CoreRule(key)

C7_CoreStatus ==
    FetchSucceeded =>
        /\ \A key \in CoreKeys :
              /\ One("statusCore", <<key>>)
              /\ \A i \in Of("statusCore", <<key>>) : Samples[i].value = CoreRule(key)
        /\ ServiceSample("statusElastic", "elasticsearch")
        /\ ServiceSample("statusSavedObjects", "savedObjects")


(***************************************************************************)
(* C8: CheckHealth returns success exactly when the upstream answers with   *)
(* HTTP 200, whatever the body; a non-200 answer and a transport error are  *)
(* failures.                                                                *)
(***************************************************************************)
Checked == health # Nil
TheCheck == Deref(health)

C8_HealthIff200 ==
    Checked =>
        ((TheCheck.err = NoError)
            <=> (TheCheck.resp.kind = "http" /\ TheCheck.resp.code = StatusOK))

\* success on a 200 whose body is empty
C8_Witness ==
    /\ Checked
    /\ TheCheck.err = NoError
    /\ TheCheck.resp.kind = "http"
    /\ TheCheck.resp.body = TextBody("")

(***************************************************************************)
(* C9: CheckHealth never takes the collection lock and sends no samples:    *)
(* its steps can be taken whoever holds or awaits the mutex, and they       *)
(* change neither the mutex, nor any Collect's position, nor the samples.   *)
(***************************************************************************)
HealthStep == hpc' # hpc

C9_HealthLockFree ==
    /\ []((~crashed /\ hpc = "idle") => ENABLED (HealthRequest \/ HealthNoRequest))
    /\ []((~crashed /\ hpc = "Do" /\ Returns(Deref(inflight[Probe])))
             => ENABLED HealthReturn)
    /\ [][HealthStep => UNCHANGED <<mutex, pc, pass>>]_vars

\* a CheckHealth that started while a Collect held the mutex has returned,
\* that Collect still waiting for its upstream answer
C9_Witness ==
    /\ hpc = "respond"
    /\ TheCheck.holder \in Collectors
    /\ mutex = TheCheck.holder
    /\ pc[TheCheck.holder] = "Do"

(***************************************************************************)
(* C10: every Collect eventually returns and releases the mutex, on the     *)
(* success path and on every failure path, and every Collect waiting for    *)
(* the mutex is eventually admitted.                                        *)
(***************************************************************************)
C10_CollectReturns ==
    \A p \in Collectors :
        /\ (pc[p] # "idle") ~> (pc[p] = "idle")
        /\ (pc[p] = "Lock") ~> (mutex = p)


(***************************************************************************)
(* C11: every failure of the fetch is exactly one of three kinds of error,  *)
(* chosen by its cause: a transport, connection or timeout failure gives    *)
(* the network error with the cause; a non-200 answer gives the             *)
(* unexpected-status error with the status code and the body as far as it   *)
(* could be read; a 200 whose body does not parse gives the decode error;   *)
(* and a 200 with a body that parses, unknown fields included, gives none.  *)
(***************************************************************************)
TheErr == ThePass.err
TheResp == ThePass.resp

Parses(body) == body.k = "json" /\ ~TypeError(KibanaStatus, body.j)

NetworkError ==
    /\ TheResp.kind = "error"
    /\ TheErr = [kind |-> "making request", cause |-> TheResp.cause]

UnexpectedStatusError ==
    /\ TheResp.kind = "http"
    /\ TheResp.code # StatusOK
    /\ TheErr.kind = "unexpected status"
    /\ TheErr.code = TheResp.code
    /\ TheErr.body = (IF TheResp.body.k = "broken"
                      THEN TextBody(TheResp.body.s) ELSE TheResp.body)

DecodeError ==
    /\ TheResp.kind = "http"
    /\ TheResp.code = StatusOK
    /\ ~Parses(TheResp.body)
    /\ TheErr.kind = "decoding response"

RequestError ==
    /\ TheResp.kind = "unsent"
    /\ TheErr = [kind |-> "creating request", cause |-> TheResp.cause]

ParsedWithoutError ==
    (TheResp.kind = "http" /\ TheResp.code = StatusOK /\ Parses(TheResp.body))
        => TheErr = NoError

C11_ThreeKinds ==
    Sent =>
        /\ TheErr # NoError => (NetworkError \/ UnexpectedStatusError \/ DecodeError)
        /\ ParsedWithoutError

(***************************************************************************)
(* C11, amended: every failure of the fetch is exactly one of four kinds    *)
(* of error: the three above, and, when no request can be built from the    *)
(* configured base URL, the request-construction error with its cause.      *)
(***************************************************************************)
C11_FourKinds ==
    Sent =>
        /\ TheErr # NoError =>
              (RequestError \/ NetworkError \/ UnexpectedStatusError \/ DecodeError)
        /\ TheErr.kind \in {"nil", "creating request", "making request",
                            "unexpected status", "decoding response"}
        /\ ParsedWithoutError

\* a non-200 answer whose body could be read in part only
C11_Witness ==
    /\ Sent
    /\ UnexpectedStatusError
    /\ TheResp.body.k = "broken"

\* a fetch that failed before any request was sent
C11_RequestErrorReached == Sent /\ RequestError

\* a 200 whose document has a field the exporter does not know
C11_UnknownFieldReached ==
    /\ FetchSucceeded
    /\ TheErr = NoError
    /\ Present(TheDoc, <<"status", "state">>)

(***************************************************************************)
(* C12: /health answers with success in every state, without calling the    *)
(* collector or the upstream; /ready calls CheckHealth once per request     *)
(* and answers with success exactly when CheckHealth returned nil, and       *)
(* otherwise with a failure status and a body that tells the error.         *)
(***************************************************************************)
HealthAnswers == live' # live /\ live' # Nil
ReadyAnswers == hpc = "respond" /\ hpc' = "written"

\* the text of CheckHealth's error, read off the upstream's answer
Failure(resp) ==
    IF resp.kind = "http"
    THEN "kibana returned status " \o ToString(resp.code)
    ELSE resp.cause

Entry(name, labels) == [fqName |-> namespace \o "_" \o name, variableLabels |-> labels]

Catalog ==
    {Entry("up", <<>>),
     Entry("status_overall", <<>>),
     Entry("status_core", <<"name">>),
     Entry("status_elasticsearch", <<>>),
     Entry("status_saved_objects", <<>>),
     Entry("heap_total_bytes", <<>>),
     Entry("heap_used_bytes", <<>>),
     Entry("heap_size_limit_bytes", <<>>),
     Entry("memory_resident_set_bytes", <<>>),
     Entry("event_loop_delay_seconds", <<>>),
     Entry("requests_total", <<"status">>),
     Entry("response_time_seconds", <<"quantile">>),
     Entry("concurrent_connections_total", <<>>),
     Entry("process_uptime_seconds", <<>>),
     Entry("os_cpu_percent", <<>>),
     Entry("os_load_average_1m", <<>>),
     Entry("os_load_average_5m", <<>>),
     Entry("os_load_average_15m", <<>>),
     Entry("os_memory_total_bytes", <<>>),
     Entry("os_memory_free_bytes", <<>>),
     Entry("os_memory_used_bytes", <<>>),
     Entry("scrape_duration_seconds", <<>>),
     Entry("scrape_success", <<>>)}

Described == {Deref(described)[i] : i \in DOMAIN Deref(described)}

C13_DescribedCatalog == described # Nil => Described = Catalog

(***************************************************************************)
(* C14: Describe is stable and free of side effects: whatever Describe,     *)
(* Collect and CheckHealth calls came before or run beside it, it returns   *)
(* the sequence of descriptors of the construction, the descriptor fields   *)
(* stay as constructed, and a Describe changes nothing of the collector     *)
(* and never waits for the mutex.                                           *)
(***************************************************************************)
DescribeStep == described' # described

C14_DescribeStable ==
    /\ [](descs = NewKibanaCollector)
    /\ [](described # Nil => Deref(described) = Describe(NewKibanaCollector))
    /\ [](~crashed => ENABLED DescribeCall)
    /\ [][DescribeStep =>
             UNCHANGED <<config, descs, mutex, pc, inflight, attempts, pass, earlier,
                         hpc, health, ready, live, crashed>>]_vars

\* Describe has returned while a Collect holds the mutex and waits for the
\* upstream, after an earlier Collect and during a CheckHealth
C14_Witness ==
    /\ described # Nil
    /\ earlier
    /\ pc[Scraper] = "Do"
    /\ mutex = Scraper
    /\ hpc = "Do"

(***************************************************************************)
(* C15: when the payload has the requests object, a successful pass sends   *)
(* the requests_total counter samples status="total" with the request       *)
(* total if present, status="disconnects" with the disconnect count if      *)
(* present, and one per key of the status-code map with that code's count;  *)
(* each value is the payload's value of this pass, and there are no other   *)
(* requests_total samples.                                                  *)
(***************************************************************************)
Number(path) == Float64(At(TheDoc, path).n)

RequestSamples == {i \in DOMAIN Samples : Samples[i].desc = "requestsTotal"}

\* a requests_total counter sample with the label and the payload's value
Counted(label, path) ==
    \E i \in RequestSamples :
       /\ Samples[i].labels = <<label>>
       /\ Samples[i].vt = CounterValue
       /\ Samples[i].value = Number(path)

RequestRows ==
    {row \in OptionalRows : row.desc = "requestsTotal" /\ Present(TheDoc, row.path)}

\* every key of the status-code map has a count
CodesCounted == \A key \in CodeKeys : Present(TheDoc, CodesPath \o <<key>>)

C15_RequestCounters ==
    (FetchSucceeded /\ Present(TheDoc, RequestsPath) /\ CodesCounted) =>
        /\ \A row \in RequestRows : Counted(row.labels[1], row.path)
        /\ \A key \in CodeKeys : Counted(key, CodesPath \o <<key>>)
        /\ Cardinality(RequestSamples) = Cardinality(RequestRows) + Cardinality(CodeKeys)

(***************************************************************************)
(* C16: a sample whose source is given in milliseconds (event loop delay,   *)
(* process uptime, average and maximum response time) is the source         *)
(* divided by exactly 1000, in seconds; a sample of any other numeric       *)
(* field is the source value itself.                                        *)
(***************************************************************************)
MillisDescs == {"eventLoop", "uptime", "responseTime"}

\* the value is the fraction n/d
Is(value, n, d) == value.den > 0 /\ value.num * d = n * value.den

\* what a row's sample is to be, from the payload
Converted(row, value) ==
    IF row.desc \in MillisDescs
    THEN Is(value, At(TheDoc, row.path).n, 1000)
    ELSE Is(value, At(TheDoc, row.path).n, 1)

\* a requests_total sample is the payload's total, disconnects or code count
RequestSource(i) ==
    \/ \E row \in RequestRows :
          Samples[i].labels = row.labels /\ Converted(row, Samples[i].value)
    \/ \E key \in CodeKeys :
          /\ Samples[i].labels = <<key>>
          /\ Present(TheDoc, CodesPath \o <<key>>)
          /\ Is(Samples[i].value, At(TheDoc, CodesPath \o <<key>>).n, 1)

Requests == {Deref(inflight[c]) : c \in {d \in Callers : inflight[d] # Nil}}

C18_CredentialsReached ==
    /\ config.Username # ""
    /\ Cardinality(Requests) >= 1
    /\ \A req \in Requests : req.auth # Nil

(***************************************************************************)
(* C19: no data survives a pass: the samples of a pass depend on its own    *)
(* fetch and duration only.  Between passes the collector holds nothing     *)
(* of a pass; a failed pass after a successful one sends none of the        *)
(* translated samples; and a field that an earlier pass had and this one    *)
(* has not is not sent.                                                     *)
(***************************************************************************)
PassDescs == {"scrapeDuration", "up", "scrapeSuccess"}

\* no Collect is under way
Quiet == \A p \in Collectors : pc[p] = "idle"

NothingKept ==
    Quiet => /\ pass = Nil
             /\ mutex = Unlocked
             /\ \A p \in Collectors : inflight[p] = Nil /\ attempts[p] = 0

\* the rows, core keys and status codes the earlier full document had
NotSentAgain(rows) ==
    /\ \A row \in rows : Absent(row.path) => Of(row.desc, row.labels) = {}
    /\ \A key \in KeysAt(FullDoc, CorePath) \ CoreKeys : Of("statusCore", <<key>>) = {}
    /\ \A key \in KeysAt(FullDoc, CodesPath) \ CodeKeys : Of("requestsTotal", <<key>>) = {}

C19_NoSurvivor ==
    /\ NothingKept
    /\ (Sent /\ earlier /\ FetchFailed) =>
           \A i \in DOMAIN Samples : Samples[i].desc \in PassDescs
    /\ (earlier /\ FetchSucceeded /\ CodeKeys \cap {"total", "disconnects"} = {}) =>
           NotSentAgain(OptionalRows)

(***************************************************************************)
(* C20: every pass sends exactly one scrape_duration_seconds, one up and    *)
(* one scrape_success sample, in that order and before any translated       *)
(* sample; up and scrape_success have the same value, 1 exactly when the    *)
(* fetch succeeded; translated samples come only in passes where it is 1.   *)
(***************************************************************************)
Translated == {i \in DOMAIN Samples : Samples[i].desc \notin PassDescs}

C20_PassSamples ==
    Sent =>
        /\ Len(Samples) >= 3
        /\ Samples[1].desc = "scrapeDuration"
        /\ Samples[2].desc = "up"
        /\ Samples[3].desc = "scrapeSuccess"
        /\ \A desc \in PassDescs : One(desc, <<>>)
        /\ \A i \in DOMAIN Samples : Samples[i].desc \in PassDescs => i <= 3
        /\ Samples[2].value = Samples[3].value
        /\ Samples[2].value = (IF FetchFailed THEN Zero ELSE Unit)
        /\ Translated # {} => Samples[2].value = Unit /\ Samples[3].value = Unit

\* a successful pass with translated samples after the three
C20_Witness ==
    /\ FetchSucceeded
    /\ Samples[2].value = Unit
    /\ Translated # {}
    /\ \A i \in Translated : i > 3

\* a failed pass with the three samples alone
C20_FailedReached ==
    /\ Sent
    /\ FetchFailed
    /\ Samples[2].value = Zero
    /\ Len(Samples) = 3

(***************************************************************************)
(* C21: within one pass no two samples have the same descriptor and the     *)
(* same label values, whatever the status document: the requests_total      *)
(* samples status="total" and status="disconnects" never coincide with a    *)
(* sample of a key of the status-code map.                                  *)
(***************************************************************************)
SameSeries(i, j) ==
    /\ Samples[i].desc = Samples[j].desc
    /\ Samples[i].labels = Samples[j].labels

C21_NoDuplicateSeries ==
    Sent => \A i, j \in DOMAIN Samples : SameSeries(i, j) => i = j

(***************************************************************************)
(* C22: every sample of every pass uses a descriptor that Describe          *)
(* returns, with as many label values as the descriptor has label names;    *)
(* and every descriptor that Describe returns is sent by some pass: there   *)
(* is an answer of the upstream for which Collect sends a sample of it.     *)
(***************************************************************************)
\* the descriptor fields a pass sends samples of, over the upstream's answers
SentBy(resp) ==
    LET scraped == scrapeKibana(resp)
    IN  UNION {{Collect(scraped, 0, coreOrder, codeOrder).samples[i].desc :
                  i \in DOMAIN Collect(scraped, 0, coreOrder, codeOrder).samples} :
               coreOrder \in RangeOrders(scraped.status.Status.Core),
               codeOrder \in RangeOrders(StatusCodesOf(scraped.status))}

Driven == UNION {SentBy(resp) : resp \in Responses}

\* the sample's descriptor is one of the collector's, with matching labels
Fits(sample) ==
    /\ sample.desc \in DOMAIN descs
    /\ \E k \in DOMAIN Describe(descs) : Describe(descs)[k] = descs[sample.desc]
    /\ Len(sample.labels) = Len(descs[sample.desc].variableLabels)

C22_DescribedAndDriven ==
    /\ Sent => \A i \in DOMAIN Samples : Fits(Samples[i])
    /\ \A k \in DOMAIN Describe(descs) :
          \E f \in Driven : descs[f] = Describe(descs)[k]

=============================================================================
